---- MODULE Spec2Model ----
(***************************************************************************)
(* SolanaRpcManager: the endpoint pool, the health refresh cycle           *)
(* (updateHealthyConnections), the interval timer, connection selection    *)
(* (getConnection) and the retry loop (executeWithRetry).                  *)
(*                                                                         *)
(* JavaScript runs one job at a time: every action below is the code that  *)
(* runs between two suspension points (an await, a timer, a call from the  *)
(* user), so it is atomic exactly where the code is.                       *)
(***************************************************************************)
EXTENDS Integers, Sequences, FiniteSets, Bags, TLC

\* ------------------------------------------------------------------ bounds

\* refresh cycles that may be in flight at the same time
MaxCycles == 2
\* invocations of initialize() on one manager
MaxInitialize == 2
\* largest maxRetries option passed to executeWithRetry
MaxRetries == 3
\* Math.random() is drawn from {0/RandSteps, ..., (RandSteps-1)/RandSteps}
RandSteps == 4

\* ------------------------------------------------------------------ values

\* the value null
Null == -1
\* a rejected connection.getSlot() (timeout, network error, malformed response)
RpcFailure == -2

\* slots an endpoint can report: with maxBlockDelay = 30 they give the deltas
\* 30 (30 - 0), 31 (31 - 0), 0, 1 and the negative deltas -1 and -31
Heights == {0, 30, 31}
\* what a getSlot() request can settle with
SlotResponses == Heights \cup {RpcFailure}

Url(scheme, host) == [scheme |-> scheme, host |-> host]

\* DEFAULT_CONFIG and the options of the modelled manager
defaultNetwork == "mainnet-beta"
officialRpcEndpoint == Url("https://", "api.mainnet-beta.solana.com")
maxBlockDelay == 30
customRpcEndpoints == <<>>
rpcHostsFilePath == "rpcHosts.json"
\* the JSON array in the hosts file when it can be read: a bare host and the
\* same host with its scheme
hostsFromFile == <<Url("", "a.example"), Url("http://", "a.example")>>

\* a network name no map has a key for
otherNetwork == "devnet"
Networks == {defaultNetwork, otherNetwork}

\* a Connection: its rpcEndpoint, and whether initialize() made it for the pool
\* (pooled) or getConnection made it as the last resort (line 271)
Connection(endpoint, pooled) == [rpcEndpoint |-> endpoint, pooled |-> pooled]
NoConnection == [rpcEndpoint |-> Url("", ""), pooled |-> FALSE]

Range(s) == {s[i] : i \in 1..Len(s)}
Addresses(conns) == {conns[i].rpcEndpoint : i \in 1..Len(conns)}

\* Map.get(key) || []
MapGet(map, key) == IF key \in DOMAIN map THEN map[key] ELSE <<>>

\* Set.add on an insertion-ordered Set kept as a sequence
SetAdd(s, e) == IF e \in Range(s) THEN s ELSE Append(s, e)

RECURSIVE SetAddAll(_, _)
SetAddAll(s, items) ==
    IF items = <<>> THEN s ELSE SetAddAll(SetAdd(s, Head(items)), Tail(items))

\* host.startsWith('http') ? host : `http://${host}`
NormalizeHost(host) ==
    IF host.scheme \in {"http://", "https://"} THEN host
    ELSE Url("http://", host.host)

\* loadRpcEndpoints: fileReadable is whether the hosts file exists and parses
loadRpcEndpoints(fileReadable) ==
    LET custom == IF Len(customRpcEndpoints) > 0
                  THEN SetAddAll(<<>>, customRpcEndpoints) ELSE <<>>
        fromFile == IF rpcHostsFilePath # "" /\ fileReadable
                    THEN SetAddAll(custom,
                             [i \in 1..Len(hostsFromFile) |-> NormalizeHost(hostsFromFile[i])])
                    ELSE custom
    IN  SetAdd(fromFile, officialRpcEndpoint)

\* getCurrentBlock: the slot, or null when the request failed
getCurrentBlock(response) == IF response = RpcFailure THEN Null ELSE response

\* !officialBlock
IsFalsy(block) == block = Null \/ block = 0

\* the comparison with < in place of <=
IsHealthyStrictlyBelow(officialBlock, currentBlock) ==
    currentBlock # Null /\ officialBlock - currentBlock < maxBlockDelay

\* currentBlock !== null && officialBlock - currentBlock <= maxBlockDelay
IsHealthy(officialBlock, currentBlock) ==
    currentBlock # Null /\ officialBlock - currentBlock <= maxBlockDelay

\* Math.floor(Math.random() * length), Math.random() = r / RandSteps
RandomIndex(r, length) == (r * length) \div RandSteps

\* a selection that draws from allConnections whatever the healthy list holds
getConnectionFromAll(healthy, all, network, r) ==
    LET allNetworkConnections == MapGet(all, network)
    IN  IF Len(allNetworkConnections) > 0
        THEN allNetworkConnections[RandomIndex(r, Len(allNetworkConnections)) + 1]
        ELSE Connection(officialRpcEndpoint, FALSE)

\* a selection that returns null when no connection is healthy, as the doc
\* comment of getConnection has it
getConnectionNullWhenNoneHealthy(healthy, all, network, r) ==
    LET connections == MapGet(healthy, network)
    IN  IF Len(connections) = 0
        THEN NoConnection
        ELSE connections[RandomIndex(r, Len(connections)) + 1]

\* a selection that returns null for a network without any connection
getConnectionNullWhenUnconfigured(healthy, all, network, r) ==
    LET connections == MapGet(healthy, network)
        allNetworkConnections == MapGet(all, network)
    IN  IF Len(connections) = 0
        THEN IF Len(allNetworkConnections) > 0
             THEN allNetworkConnections[RandomIndex(r, Len(allNetworkConnections)) + 1]
             ELSE NoConnection
        ELSE connections[RandomIndex(r, Len(connections)) + 1]

\* getConnection(network): the connection returned when Math.random() = r / RandSteps
getConnection(healthy, all, network, r) ==
    LET connections == MapGet(healthy, network)
        allNetworkConnections == MapGet(all, network)
    IN  IF Len(connections) = 0
        THEN IF Len(allNetworkConnections) > 0
             THEN allNetworkConnections[RandomIndex(r, Len(allNetworkConnections)) + 1]
             ELSE Connection(officialRpcEndpoint, FALSE)
        ELSE connections[RandomIndex(r, Len(connections)) + 1]

\* ------------------------------------------------------------------ state

VARIABLES
    allConnections,       \* Map network -> Connection[]
    healthyConnections,   \* Map network -> Connection[]
    healthCheckInterval,  \* TRUE while the setInterval timer is set
    cycles,               \* the updateHealthyConnections calls in flight (a bag)
    initFrame,            \* the initialize() call in flight
    initCount,            \* initialize() invocations so far
    disposed,             \* dispose() has returned and no refresh was asked for since
    selected,             \* what the last getConnection call returned
    stats,                \* what the last getStats call returned
    retryFrame            \* the executeWithRetry call in flight, or its outcome

vars == <<allConnections, healthyConnections, healthCheckInterval, cycles,
          initFrame, initCount, disposed, selected, stats, retryFrame>>

\* check: how the awaited health check ended ("skipped" or "updated")
IdleInit == [pc |-> "idle", endpoints |-> <<>>, check |-> "none"]

\* lastError = null, and the errors an attempt can end with: the attempt (1, 2, ...)
\* that raised it and whether the operation or the timeout rejected
NoError == [attempt |-> 0, cause |-> "none"]
AttemptError(attempt, cause) == [attempt |-> attempt, cause |-> cause]
\* new Error('RPC call failed after multiple retries')
GenericError == [attempt |-> 0, cause |-> "RPC call failed after multiple retries"]
\* new Error(`No available RPC connections for network: ${network}`)
NoConnectionError == [attempt |-> 0, cause |-> "No available RPC connections"]

\* result: the attempt whose operation value was returned (0: none);
\* invoked: how many times rpcMethod has been called;
\* check: how the forced health check ended;
\* late: the attempts whose timeout won the race and whose operation, which
\* nothing cancels, has not settled yet
IdleRetry == [pc |-> "idle", network |-> defaultNetwork, maxRetries |-> 0,
              attempt |-> 0, lastError |-> NoError, connection |-> NoConnection,
              invoked |-> 0, check |-> "none", result |-> 0, error |-> NoError,
              late |-> {}, timers |-> {}]

\* no getStats call was made yet
NoStats == [totalConnections |-> <<>>, healthyConnections |-> <<>>,
            healthyEndpoints |-> <<>>]

\* getStats(): for every network of allConnections, the number of its
\* connections, the number of its healthy connections and their endpoints
getStats(all, healthy) ==
    [totalConnections |-> [n \in DOMAIN all |-> Len(all[n])],
     healthyConnections |-> [n \in DOMAIN all |-> Len(MapGet(healthy, n))],
     healthyEndpoints |->
         [n \in DOMAIN all |->
             [i \in 1..Len(MapGet(healthy, n)) |-> MapGet(healthy, n)[i].rpcEndpoint]]]

\* the constructor
Init ==
    /\ allConnections = [n \in {defaultNetwork} |-> <<>>]
    /\ healthyConnections = [n \in {defaultNetwork} |-> <<>>]
    /\ healthCheckInterval = FALSE
    /\ cycles = EmptyBag
    /\ initFrame = IdleInit
    /\ initCount = 0
    /\ disposed = FALSE
    /\ selected = NoConnection
    /\ stats = NoStats
    /\ retryFrame = IdleRetry

\* ------------------------------------------------------------------ refresh cycle

\* a call of updateHealthyConnections up to its first await: the request to the
\* official endpoint is sent. waiter is the caller that awaits the call
\* ("initialize", "executeWithRetry") or "none" (the timer, a direct call).
\* order is kept for the calls whose place among the calls is followed
\* (UpdateHealthyConnectionsInOrder): "latest" (no such call was made after this
\* one), "overtaken" (a later call was made), "stale" (a later call was made
\* and has already set the healthy list); otherwise it is "unordered"
StartedCycle(waiter) ==
    [pc |-> "official", waiter |-> waiter, officialBlock |-> Null,
     network |-> defaultNetwork, connections |-> <<>>, healthyEndpoints |-> <<>>,
     probed |-> <<>>, order |-> "unordered"]

CanStartCycle == BagCardinality(cycles) < MaxCycles
InFlight == BagToSet(cycles)

Overtaken(cy) == IF cy.order = "latest" THEN [cy EXCEPT !.order = "overtaken"] ELSE cy
Stale(cy) == IF cy.order = "overtaken" THEN [cy EXCEPT !.order = "stale"] ELSE cy

Started(waiter) == cycles (+) SetToBag({StartedCycle(waiter)})
StartedInOrder(waiter) ==
    BagOfAll(Overtaken, cycles) (+) SetToBag({[StartedCycle(waiter) EXCEPT !.order = "latest"]})
Finished(cy) == cycles (-) SetToBag({cy})
\* the call returns after this.healthyConnections.set(network, healthyEndpoints)
FinishedWriting(cy) ==
    IF cy.order = "latest" THEN BagOfAll(Stale, Finished(cy)) ELSE Finished(cy)
Advanced(cy, next) == (cycles (-) SetToBag({cy})) (+) SetToBag({next})

\* the promise of updateHealthyConnections resolves: its awaiter is resumed
ResumeInit(cy, check) ==
    IF cy.waiter = "initialize"
    THEN [initFrame EXCEPT !.pc = "resume", !.check = check]
    ELSE initFrame

\* the error of a health check that rejects
HealthCheckError == [attempt |-> 0, cause |-> "health check failed"]

\* a skipped health check that rejects the promise executeWithRetry awaits
ResumeRetryRejects(cy, check) ==
    IF cy.waiter = "executeWithRetry"
    THEN IF check = "skipped"
         THEN [retryFrame EXCEPT !.pc = "thrown", !.error = HealthCheckError]
         ELSE [retryFrame EXCEPT !.pc = "resume", !.check = check]
    ELSE retryFrame

ResumeRetry(cy, check) ==
    IF cy.waiter = "executeWithRetry"
    THEN [retryFrame EXCEPT !.pc = "resume", !.check = check]
    ELSE retryFrame

\* a skipped health check that empties every network's healthy list
HealthyClearedWhenSkipped(healthy, all, officialBlock) ==
    IF IsFalsy(officialBlock) THEN [n \in DOMAIN healthy |-> <<>>]
    ELSE IF Len(all[defaultNetwork]) = 0
         THEN [healthy EXCEPT ![defaultNetwork] = <<>>]
         ELSE healthy

\* `if (!officialBlock) return` keeps the map; otherwise a network without
\* connections gets its (empty) list at once: the inner loop awaits nothing
HealthyAfterOfficial(healthy, all, officialBlock) ==
    IF IsFalsy(officialBlock) THEN healthy
    ELSE IF Len(all[defaultNetwork]) = 0
         THEN [healthy EXCEPT ![defaultNetwork] = <<>>]
         ELSE healthy

\* the official endpoint's request settles
OfficialRespond(cy, response) ==
    LET officialBlock == getCurrentBlock(response)
        connections == allConnections[defaultNetwork]
    IN  /\ cy \in InFlight
        /\ cy.pc = "official"
        /\ healthyConnections' =
               HealthyAfterOfficial(healthyConnections, allConnections, officialBlock)
        /\ IF IsFalsy(officialBlock)
           THEN \* skipping health check
                /\ cycles' = Finished(cy)
                /\ initFrame' = ResumeInit(cy, "skipped")
                /\ retryFrame' = ResumeRetry(cy, "skipped")
           ELSE IF Len(connections) = 0
           THEN /\ cycles' = FinishedWriting(cy)
                /\ initFrame' = ResumeInit(cy, "updated")
                /\ retryFrame' = ResumeRetry(cy, "updated")
           ELSE \* the first connection's request is sent
                /\ cycles' = Advanced(cy, [cy EXCEPT !.pc = "probe",
                                                     !.officialBlock = officialBlock,
                                                     !.connections = connections])
                /\ UNCHANGED <<initFrame, retryFrame>>
        /\ UNCHANGED <<allConnections, healthCheckInterval, initCount, disposed, selected, stats>>

\* healthyEndpoints after the connection's block has been compared
Classify(healthyEndpoints, connection, officialBlock, currentBlock) ==
    IF IsHealthy(officialBlock, currentBlock)
    THEN Append(healthyEndpoints, connection)
    ELSE healthyEndpoints

\* a cycle that publishes healthyEndpoints after every probe instead of once
ProbeRespondPublishesEach(cy, response) ==
    LET connection == cy.connections[Len(cy.probed) + 1]
        currentBlock == getCurrentBlock(response)
        healthyEndpoints ==
            Classify(cy.healthyEndpoints, connection, cy.officialBlock, currentBlock)
        probed == Append(cy.probed, currentBlock)
    IN  /\ cy \in InFlight
        /\ cy.pc = "probe"
        /\ healthyConnections' =
               [healthyConnections EXCEPT ![cy.network] = healthyEndpoints]
        /\ IF Len(probed) < Len(cy.connections)
           THEN /\ cycles' = Advanced(cy, [cy EXCEPT !.healthyEndpoints = healthyEndpoints,
                                                     !.probed = probed])
                /\ UNCHANGED <<initFrame, retryFrame>>
           ELSE /\ cycles' = FinishedWriting(cy)
                /\ initFrame' = ResumeInit(cy, "updated")
                /\ retryFrame' = ResumeRetry(cy, "updated")
        /\ UNCHANGED <<allConnections, healthCheckInterval, initCount, disposed, selected, stats>>

\* the request of the connection being probed settles
ProbeRespond(cy, response) ==
    LET connection == cy.connections[Len(cy.probed) + 1]
        currentBlock == getCurrentBlock(response)
        healthyEndpoints ==
            Classify(cy.healthyEndpoints, connection, cy.officialBlock, currentBlock)
        probed == Append(cy.probed, currentBlock)
    IN  /\ cy \in InFlight
        /\ cy.pc = "probe"
        /\ IF Len(probed) < Len(cy.connections)
           THEN \* the next connection's request is sent
                /\ cycles' = Advanced(cy, [cy EXCEPT !.healthyEndpoints = healthyEndpoints,
                                                     !.probed = probed])
                /\ UNCHANGED <<healthyConnections, initFrame, retryFrame>>
           ELSE \* this.healthyConnections.set(network, healthyEndpoints)
                /\ healthyConnections' =
                       [healthyConnections EXCEPT ![cy.network] = healthyEndpoints]
                /\ cycles' = FinishedWriting(cy)
                /\ initFrame' = ResumeInit(cy, "updated")
                /\ retryFrame' = ResumeRetry(cy, "updated")
        /\ UNCHANGED <<allConnections, healthCheckInterval, initCount, disposed, selected, stats>>

\* a direct call of the public updateHealthyConnections
UpdateHealthyConnections ==
    /\ CanStartCycle
    /\ cycles' = Started("none")
    /\ disposed' = FALSE
    /\ UNCHANGED <<allConnections, healthyConnections, healthCheckInterval,
                   initFrame, initCount, selected, stats, retryFrame>>

\* a direct call of the public updateHealthyConnections whose place among these
\* calls is followed
UpdateHealthyConnectionsInOrder ==
    /\ CanStartCycle
    /\ cycles' = StartedInOrder("none")
    /\ disposed' = FALSE
    /\ UNCHANGED <<allConnections, healthyConnections, healthCheckInterval,
                   initFrame, initCount, selected, stats, retryFrame>>

\* the setInterval callback
TimerTick ==
    /\ healthCheckInterval
    /\ CanStartCycle
    /\ cycles' = Started("none")
    /\ UNCHANGED <<allConnections, healthyConnections, healthCheckInterval,
                   initFrame, initCount, disposed, selected, stats, retryFrame>>

\* ------------------------------------------------------------------ initialize

\* initialize() up to `await this.loadRpcEndpoints()`
InitializeCall(fileReadable) ==
    /\ initFrame.pc = "idle"
    /\ initCount < MaxInitialize
    /\ initFrame' = [pc |-> "loaded", endpoints |-> loadRpcEndpoints(fileReadable),
                     check |-> "none"]
    /\ initCount' = initCount + 1
    /\ disposed' = FALSE
    /\ UNCHANGED <<allConnections, healthyConnections, healthCheckInterval,
                   cycles, selected, stats, retryFrame>>

\* the connections are stored and the initial health check is started
InitializeStore ==
    LET endpoints == IF Len(initFrame.endpoints) = 0
                     THEN <<officialRpcEndpoint>> ELSE initFrame.endpoints
        connections == [i \in 1..Len(endpoints) |-> Connection(endpoints[i], TRUE)]
    IN  /\ initFrame.pc = "loaded"
        /\ CanStartCycle
        /\ allConnections' = [allConnections EXCEPT ![defaultNetwork] = connections]
        /\ cycles' = Started("initialize")
        /\ initFrame' = [initFrame EXCEPT !.pc = "awaitHealth", !.endpoints = <<>>]
        /\ UNCHANGED <<healthyConnections, healthCheckInterval, initCount,
                       disposed, selected, stats, retryFrame>>

\* startHealthCheck
startHealthCheck == healthCheckInterval' = TRUE

\* initialize() after `await this.updateHealthyConnections()`
InitializeResume ==
    /\ initFrame.pc = "resume"
    /\ startHealthCheck
    /\ initFrame' = IdleInit
    /\ UNCHANGED <<allConnections, healthyConnections, cycles, initCount,
                   disposed, selected, stats, retryFrame>>

\* ------------------------------------------------------------------ timer

\* stopHealthCheck
StopHealthCheck ==
    /\ healthCheckInterval' = (IF healthCheckInterval THEN FALSE ELSE healthCheckInterval)
    /\ UNCHANGED <<allConnections, healthyConnections, cycles, initFrame,
                   initCount, disposed, selected, stats, retryFrame>>

\* a dispose that logs and leaves the timer alone
DisposeLeavesTimer ==
    /\ disposed' = TRUE
    /\ UNCHANGED <<allConnections, healthyConnections, healthCheckInterval, cycles,
                   initFrame, initCount, selected, stats, retryFrame>>

\* dispose
Dispose ==
    /\ healthCheckInterval' = (IF healthCheckInterval THEN FALSE ELSE healthCheckInterval)
    /\ disposed' = TRUE
    /\ UNCHANGED <<allConnections, healthyConnections, cycles, initFrame,
                   initCount, selected, stats, retryFrame>>

\* ------------------------------------------------------------------ selection

Randoms == 0..(RandSteps - 1)

\* the connections getConnection(network) can return in the current state,
\* one for each value of Math.random()
Selectable(network) ==
    {getConnection(healthyConnections, allConnections, network, r) : r \in Randoms}

\* a direct call of the public getConnection
GetConnection(network, connection) ==
    /\ connection \in Selectable(network)
    /\ selected' = connection
    /\ UNCHANGED <<allConnections, healthyConnections, healthCheckInterval,
                   cycles, initFrame, initCount, disposed, stats, retryFrame>>

\* a call of the public getStats
GetStats ==
    /\ stats' = getStats(allConnections, healthyConnections)
    /\ UNCHANGED <<allConnections, healthyConnections, healthCheckInterval,
                   cycles, initFrame, initCount, disposed, selected, retryFrame>>

\* ------------------------------------------------------------------ executeWithRetry

RetryPools == <<allConnections, healthyConnections, healthCheckInterval,
                initFrame, initCount, selected, stats>>

\* the while loop from its condition to `await Promise.race(...)`, or to the
\* throw that ends the call; connection is what getConnection(network) returns
LoopHead(frame, connection) ==
    IF frame.attempt < frame.maxRetries
    THEN IF connection = NoConnection
         THEN [frame EXCEPT !.pc = "thrown", !.error = NoConnectionError]
         ELSE \* rpcMethod(connection) is called and the timeout is set
              [frame EXCEPT !.pc = "race", !.connection = connection,
                            !.invoked = frame.invoked + 1,
                            !.timers = @ \cup {frame.attempt + 1}]
    ELSE \* throw lastError || new Error(...)
         [frame EXCEPT !.pc = "thrown", !.connection = NoConnection,
                       !.error = IF frame.lastError # NoError
                                 THEN frame.lastError ELSE GenericError]

\* a success that is recorded without leaving the loop
KeepLoopingAfterSuccess(frame) ==
    [frame EXCEPT !.result = frame.attempt + 1,
                  !.attempt = frame.attempt + 1,
                  !.invoked = IF frame.attempt + 1 < frame.maxRetries
                              THEN frame.invoked + 1 ELSE frame.invoked,
                  !.pc = IF frame.attempt + 1 < frame.maxRetries
                         THEN "race" ELSE "returned"]

\* return result as T
ReturnResult(frame) ==
    [frame EXCEPT !.pc = "returned", !.connection = NoConnection,
                  !.result = frame.attempt + 1]

\* a catch block that keeps the first error
CatchErrorKeepsFirst(frame, cause) ==
    [frame EXCEPT !.lastError = IF frame.lastError # NoError THEN frame.lastError
                                ELSE AttemptError(frame.attempt + 1, cause),
                  !.attempt = frame.attempt + 1]

\* a catch block in which a timeout gives up the remaining attempts
CatchErrorTimeoutAborts(frame, cause) ==
    [frame EXCEPT !.lastError = AttemptError(frame.attempt + 1, cause),
                  !.attempt = IF cause = "timeout" THEN frame.maxRetries
                              ELSE frame.attempt + 1]

\* the catch block: lastError = error; attempt++
CatchError(frame, cause) ==
    [frame EXCEPT !.lastError = AttemptError(frame.attempt + 1, cause),
                  !.attempt = frame.attempt + 1]

\* a call that waits for the refresh cycles in flight before it selects
ExecuteWithRetryAwaitsCycles(network, maxRetries, forceHealthCheck, connection) ==
    LET frame == [IdleRetry EXCEPT !.network = network, !.maxRetries = maxRetries]
    IN  /\ retryFrame.pc \in {"idle", "returned", "thrown"}
        /\ IF forceHealthCheck
           THEN /\ CanStartCycle
                /\ cycles' = Started("executeWithRetry")
                /\ retryFrame' = [frame EXCEPT !.pc = "force"]
                /\ disposed' = FALSE
           ELSE IF cycles # EmptyBag
           THEN /\ retryFrame' = [frame EXCEPT !.pc = "force"]
                /\ UNCHANGED <<cycles, disposed>>
           ELSE /\ connection \in Selectable(network)
                /\ retryFrame' = LoopHead(frame, connection)
                /\ UNCHANGED <<cycles, disposed>>
        /\ UNCHANGED RetryPools

\* a forced health check that is started but not awaited
ExecuteWithRetryForceNotAwaited(network, maxRetries, forceHealthCheck, connection) ==
    LET frame == [IdleRetry EXCEPT !.network = network, !.maxRetries = maxRetries]
    IN  /\ retryFrame.pc \in {"idle", "returned", "thrown"}
        /\ IF forceHealthCheck
           THEN /\ CanStartCycle
                /\ cycles' = Started("none")
                /\ retryFrame' =
                       LoopHead(frame, CHOOSE c \in Selectable(network) : TRUE)
                /\ disposed' = FALSE
           ELSE /\ connection \in Selectable(network)
                /\ retryFrame' = LoopHead(frame, connection)
                /\ UNCHANGED <<cycles, disposed>>
        /\ UNCHANGED RetryPools

\* a call of executeWithRetry, up to its first await
ExecuteWithRetry(network, maxRetries, forceHealthCheck, connection) ==
    LET frame == [IdleRetry EXCEPT !.network = network, !.maxRetries = maxRetries]
    IN  /\ retryFrame.pc \in {"idle", "returned", "thrown"}
        /\ IF forceHealthCheck
           THEN \* await this.updateHealthyConnections()
                /\ CanStartCycle
                /\ cycles' = Started("executeWithRetry")
                /\ retryFrame' = [frame EXCEPT !.pc = "force"]
                /\ disposed' = FALSE
           ELSE /\ connection \in Selectable(network)
                /\ retryFrame' = LoopHead(frame, connection)
                /\ UNCHANGED <<cycles, disposed>>
        /\ UNCHANGED RetryPools

\* executeWithRetry after `await this.updateHealthyConnections()`
RetryResume(connection) ==
    /\ retryFrame.pc = "resume"
    /\ connection \in Selectable(retryFrame.network)
    /\ retryFrame' = LoopHead([retryFrame EXCEPT !.check = "none"], connection)
    /\ UNCHANGED <<RetryPools, cycles, disposed>>

\* the operation of the attempt resolves before the timeout
OperationSucceeds ==
    /\ retryFrame.pc = "race"
    /\ retryFrame' = ReturnResult(retryFrame)
    /\ UNCHANGED <<RetryPools, cycles, disposed>>

\* a failed attempt that takes the connection it used out of the healthy list
OperationFailsEvicts(connection) ==
    /\ retryFrame.pc = "race"
    /\ connection \in Selectable(retryFrame.network)
    /\ retryFrame' = LoopHead(CatchError(retryFrame, "operation"), connection)
    /\ healthyConnections' =
           [n \in DOMAIN healthyConnections |->
               SelectSeq(healthyConnections[n],
                         LAMBDA c : c # retryFrame.connection)]
    /\ UNCHANGED <<allConnections, healthCheckInterval, initFrame, initCount,
                   selected, stats, cycles, disposed>>

\* the operation of the attempt rejects before the timeout
OperationFails(connection) ==
    /\ retryFrame.pc = "race"
    /\ connection \in Selectable(retryFrame.network)
    /\ retryFrame' = LoopHead(CatchError(retryFrame, "operation"), connection)
    /\ UNCHANGED <<RetryPools, cycles, disposed>>

\* the timeout of the attempt fires before the operation settles: the operation
\* goes on running
AttemptTimeout(connection) ==
    /\ retryFrame.pc = "race"
    /\ connection \in Selectable(retryFrame.network)
    /\ retryFrame' =
           LoopHead([CatchError(retryFrame, "timeout") EXCEPT
                         !.late = @ \cup {retryFrame.attempt + 1},
                         !.timers = @ \ {retryFrame.attempt + 1}],
                    connection)
    /\ UNCHANGED <<RetryPools, cycles, disposed>>

\* how the operation of a timed-out attempt can settle
LateOutcomes == {"resolved", "rejected"}

\* a late rejection that is recorded as the last error
LateSettleRecordsError(frame, attempt, outcome) ==
    [frame EXCEPT !.late = @ \ {attempt},
                  !.lastError = IF outcome = "rejected"
                                THEN AttemptError(attempt, "operation") ELSE @]

\* the promise of rpcMethod settles after Promise.race has settled: the race
\* promise ignores it, and the call (running, returned or thrown) is as before
LateSettle(frame, attempt, outcome) ==
    [frame EXCEPT !.late = @ \ {attempt}]

\* the operation of a timed-out attempt settles
LateOperationSettles(attempt, outcome) ==
    /\ attempt \in retryFrame.late
    /\ retryFrame' = LateSettle(retryFrame, attempt, outcome)
    /\ UNCHANGED <<RetryPools, cycles, disposed>>

\* the attempts of the call whose timeout is set and whose race is over
LeftoverTimers ==
    retryFrame.timers \ (IF retryFrame.pc = "race" THEN {retryFrame.attempt + 1} ELSE {})

\* the timeout of an attempt fires after the operation has won the race: the
\* rejection reaches a race promise that is already settled
LateTimeoutFires(attempt) ==
    /\ attempt \in LeftoverTimers
    /\ retryFrame' = [retryFrame EXCEPT !.timers = @ \ {attempt}]
    /\ UNCHANGED <<RetryPools, cycles, disposed>>

\* ------------------------------------------------------------------ specification

\* the pool: initialize, the refresh cycles, the timer, dispose
Next ==
    \/ \E fileReadable \in BOOLEAN : InitializeCall(fileReadable)
    \/ InitializeStore
    \/ InitializeResume
    \/ UpdateHealthyConnections
    \/ TimerTick
    \/ \E cy \in InFlight, response \in SlotResponses : OfficialRespond(cy, response)
    \/ \E cy \in InFlight, response \in SlotResponses : ProbeRespond(cy, response)
    \/ StopHealthCheck
    \/ Dispose

Spec == Init /\ [][Next]_vars

\* getConnection calls while the pool is initialized and refreshed
NextSelect ==
    \/ \E fileReadable \in BOOLEAN : InitializeCall(fileReadable)
    \/ InitializeStore
    \/ InitializeResume
    \/ TimerTick
    \/ \E cy \in InFlight, response \in SlotResponses : OfficialRespond(cy, response)
    \/ \E cy \in InFlight, response \in SlotResponses : ProbeRespond(cy, response)
    \/ \E network \in Networks :
          \E connection \in Selectable(network) : GetConnection(network, connection)

SpecSelect == Init /\ [][NextSelect]_vars

\* executeWithRetry calls while the pool is initialized (once) and refreshed;
\* the timer's cycles do not overlap each other here
NextRetry ==
    \/ \E fileReadable \in BOOLEAN : initCount = 0 /\ InitializeCall(fileReadable)
    \/ InitializeStore
    \/ InitializeResume
    \/ cycles = EmptyBag /\ TimerTick
    \/ \E cy \in InFlight, response \in SlotResponses : OfficialRespond(cy, response)
    \/ \E cy \in InFlight, response \in SlotResponses : ProbeRespond(cy, response)
    \/ \E network \in Networks, maxRetries \in 0..MaxRetries, forceHealthCheck \in BOOLEAN :
          \E connection \in (IF forceHealthCheck THEN {NoConnection} ELSE Selectable(network)) :
              ExecuteWithRetry(network, maxRetries, forceHealthCheck, connection)
    \/ \E connection \in Selectable(retryFrame.network) : RetryResume(connection)
    \/ OperationSucceeds
    \/ \E connection \in Selectable(retryFrame.network) : OperationFails(connection)
    \/ \E connection \in Selectable(retryFrame.network) : AttemptTimeout(connection)
    \/ \E attempt \in retryFrame.late, outcome \in LateOutcomes :
          LateOperationSettles(attempt, outcome)

SpecRetry == Init /\ [][NextRetry]_vars

\* the reading calls (getConnection, getStats, executeWithRetry without
\* forceHealthCheck) while the pool is initialized (once) and refreshed by the
\* timer, whose cycles do not overlap each other here
NextReaders ==
    \/ \E fileReadable \in BOOLEAN : initCount = 0 /\ InitializeCall(fileReadable)
    \/ InitializeStore
    \/ InitializeResume
    \/ cycles = EmptyBag /\ TimerTick
    \/ \E cy \in InFlight, response \in SlotResponses : OfficialRespond(cy, response)
    \/ \E cy \in InFlight, response \in SlotResponses : ProbeRespond(cy, response)
    \/ \E network \in Networks :
          \E connection \in Selectable(network) : GetConnection(network, connection)
    \/ GetStats
    \/ \E network \in Networks, maxRetries \in 0..MaxRetries :
          \E connection \in Selectable(network) :
              ExecuteWithRetry(network, maxRetries, FALSE, connection)
    \/ OperationSucceeds
    \/ \E connection \in Selectable(retryFrame.network) : OperationFails(connection)
    \/ \E connection \in Selectable(retryFrame.network) : AttemptTimeout(connection)

SpecReaders == Init /\ [][NextReaders]_vars

\* executeWithRetry calls without forceHealthCheck and the timeouts of their
\* attempts, while the pool is initialized (once) and refreshed by the timer,
\* whose cycles do not overlap each other here
NextTimeouts ==
    \/ \E fileReadable \in BOOLEAN : initCount = 0 /\ InitializeCall(fileReadable)
    \/ InitializeStore
    \/ InitializeResume
    \/ cycles = EmptyBag /\ TimerTick
    \/ \E cy \in InFlight, response \in SlotResponses : OfficialRespond(cy, response)
    \/ \E cy \in InFlight, response \in SlotResponses : ProbeRespond(cy, response)
    \/ \E network \in Networks, maxRetries \in 0..MaxRetries :
          \E connection \in Selectable(network) :
              ExecuteWithRetry(network, maxRetries, FALSE, connection)
    \/ OperationSucceeds
    \/ \E connection \in Selectable(retryFrame.network) : OperationFails(connection)
    \/ \E connection \in Selectable(retryFrame.network) : AttemptTimeout(connection)
    \/ \E attempt \in LeftoverTimers : LateTimeoutFires(attempt)

SpecTimeouts == Init /\ [][NextTimeouts]_vars

\* direct calls of updateHealthyConnections that overlap each other, on a
\* manager whose one initialize() has returned; the timer's cycles do not overlap
\* others
NextOverlap ==
    \/ \E fileReadable \in BOOLEAN : initCount = 0 /\ InitializeCall(fileReadable)
    \/ InitializeStore
    \/ InitializeResume
    \/ initCount = 1 /\ initFrame.pc = "idle" /\ UpdateHealthyConnectionsInOrder
    \/ cycles = EmptyBag /\ TimerTick
    \/ \E cy \in InFlight, response \in SlotResponses : OfficialRespond(cy, response)
    \/ \E cy \in InFlight, response \in SlotResponses : ProbeRespond(cy, response)

SpecOverlap == Init /\ [][NextOverlap]_vars

\* the timer's cycles do not overlap each other; one endpoint may never answer
NextFair ==
    \/ \E fileReadable \in BOOLEAN : InitializeCall(fileReadable)
    \/ InitializeStore
    \/ InitializeResume
    \/ cycles = EmptyBag /\ TimerTick
    \/ \E cy \in InFlight, response \in SlotResponses : OfficialRespond(cy, response)
    \/ \E cy \in InFlight, response \in SlotResponses : ProbeRespond(cy, response)

\* the endpoint whose getSlot() request is not bound to settle
slowEndpoint == Url("http://", "a.example")

\* the endpoint whose request cycle cy is awaiting
ProbedEndpoint(cy) == cy.connections[Len(cy.probed) + 1].rpcEndpoint

\* a request to the official endpoint, or to a pooled endpoint other than the
\* slow one, settles
SettleResponsive ==
    \E cy \in InFlight, response \in SlotResponses :
        \/ OfficialRespond(cy, response)
        \/ (cy.pc = "probe" /\ ProbedEndpoint(cy) # slowEndpoint
              /\ ProbeRespond(cy, response))

\* the event loop runs every continuation that is ready, and every request to a
\* responsive endpoint settles
FairSpec ==
    /\ Init /\ [][NextFair]_vars
    /\ WF_vars(InitializeStore)
    /\ WF_vars(InitializeResume)
    /\ WF_vars(SettleResponsive)

\* the timeout of the running attempt fires
TimeoutFires == \E connection \in Selectable(retryFrame.network) : AttemptTimeout(connection)

\* executeWithRetry goes on after its forced health check has ended
RetryContinues == \E connection \in Selectable(retryFrame.network) : RetryResume(connection)

\* executeWithRetry calls under an event loop that runs every continuation that
\* is ready and fires every timeout, with every request to a responsive endpoint
\* settling; the caller's operation is not bound to settle
FairRetrySpec ==
    /\ Init /\ [][NextRetry]_vars
    /\ WF_vars(InitializeStore)
    /\ WF_vars(InitializeResume)
    /\ WF_vars(SettleResponsive)
    /\ WF_vars(RetryContinues)
    /\ WF_vars(TimeoutFires)

\* ------------------------------------------------------------------ properties

HealthyAddresses(network) == Addresses(MapGet(healthyConnections, network))
AllAddresses(network) == Addresses(MapGet(allConnections, network))

\* C1: in every reachable state, for every network, the addresses of the healthy
\* list are among the addresses of the network's allConnections list.
C1_HealthySubsetOfAll ==
    \A network \in Networks : HealthyAddresses(network) \subseteq AllAddresses(network)

\* The same inclusion on a manager whose initialize() was invoked at most once.
HealthySubsetOfAllFirstInitialize ==
    initCount <= 1 => C1_HealthySubsetOfAll

\* C2: a cycle whose request to the official endpoint fails changes no network's
\* healthy list, and its awaiter is resumed normally with the check skipped.
C2_ReferenceFailureKeepsHealthy ==
    [][\A cy \in InFlight :
          (cy.pc = "official" /\ OfficialRespond(cy, RpcFailure)) =>
              /\ healthyConnections' = healthyConnections
              /\ cycles' = Finished(cy)
              /\ cy.waiter = "initialize" =>
                     initFrame' = [initFrame EXCEPT !.pc = "resume", !.check = "skipped"]
              /\ cy.waiter = "executeWithRetry" =>
                     retryFrame' = [retryFrame EXCEPT !.pc = "resume", !.check = "skipped"]
      ]_vars

\* a health check that was awaited by initialize() was skipped, and the healthy
\* list it left alone is not empty
C2_Witness ==
    /\ initFrame.pc = "resume"
    /\ initFrame.check = "skipped"
    /\ healthyConnections[defaultNetwork] # <<>>

\* the connections whose request succeeded with a block at most maxBlockDelay
\* behind officialHeight, in the order of connections
RECURSIVE WithinDelay(_, _, _)
WithinDelay(connections, blocks, officialHeight) ==
    IF connections = <<>> THEN <<>>
    ELSE LET rest == WithinDelay(Tail(connections), Tail(blocks), officialHeight)
         IN  IF Head(blocks) # Null /\ officialHeight - Head(blocks) <= maxBlockDelay
             THEN <<Head(connections)>> \o rest
             ELSE rest

\* the cycles that take the step: each leaves the bag or changes in it
Stepped == {cy \in InFlight : CopiesIn(cy, cycles') < CopiesIn(cy, cycles)}

\* C3: the step that completes a cycle sets the network's healthy list to exactly
\* the connections the cycle read from allConnections whose request succeeded in
\* this cycle with officialHeight - height <= maxBlockDelay, in their order,
\* whatever the healthy list was before.
C3_CompletedCycleClassifies ==
    [][\A cy \in Stepped, response \in SlotResponses :
          /\ (/\ cy.pc = "probe"
              /\ Len(cy.probed) + 1 = Len(cy.connections)
              /\ ProbeRespond(cy, response)) =>
                 healthyConnections'[cy.network] =
                     WithinDelay(cy.connections,
                                 Append(cy.probed, IF response = RpcFailure THEN Null ELSE response),
                                 cy.officialBlock)
          /\ (/\ cy.pc = "official"
              /\ response \notin {RpcFailure, 0}
              /\ allConnections[defaultNetwork] = <<>>
              /\ OfficialRespond(cy, response)) =>
                 healthyConnections'[defaultNetwork] = <<>>
      ]_vars

\* the health check awaited by initialize() has completed: of the two pooled
\* connections only the second was classified healthy
C3_Witness ==
    /\ initFrame.pc = "resume"
    /\ initFrame.check = "updated"
    /\ Len(allConnections[defaultNetwork]) = 2
    /\ healthyConnections[defaultNetwork] = <<allConnections[defaultNetwork][2]>>

\* the cycles that leave the bag in the step
Completing == {cy \in Stepped : BagCardinality(cycles') < BagCardinality(cycles)}

\* C11: every step that changes a healthy list is the completing step of one
\* cycle, and the list it leaves is that cycle's whole classification (of all the
\* connections the cycle read, from this cycle's responses only): the list a
\* reader finds is never one under construction and never built by two cycles.
C11_HealthyIsOneCycleSnapshot ==
    [][healthyConnections' # healthyConnections =>
          \E cy \in Completing :
              \/ /\ cy.pc = "probe"
                 /\ Len(cy.probed) + 1 = Len(cy.connections)
                 /\ \E response \in SlotResponses :
                        healthyConnections' =
                            [healthyConnections EXCEPT ![cy.network] =
                                WithinDelay(cy.connections,
                                            Append(cy.probed,
                                                   IF response = RpcFailure THEN Null
                                                   ELSE response),
                                            cy.officialBlock)]
              \/ /\ cy.pc = "official"
                 /\ allConnections[defaultNetwork] = <<>>
                 /\ healthyConnections' =
                        [healthyConnections EXCEPT ![defaultNetwork] = <<>>]
      ]_vars

\* two cycles overlap: one has classified its first connection healthy and still
\* awaits the second, while the healthy list holds another cycle's result, which
\* does not contain that connection
C11_Witness ==
    \E cy \in InFlight :
        /\ cy.pc = "probe"
        /\ Len(cy.probed) = 1
        /\ cy.healthyEndpoints = <<cy.connections[1]>>
        /\ BagCardinality(cycles) = 2
        /\ healthyConnections[defaultNetwork] = <<cy.connections[2]>>

\* C9: once dispose() has returned (and no initialize, updateHealthyConnections or
\* forceHealthCheck call was made after it), no step changes a healthy list.
C9_NoChangeAfterDispose ==
    [][disposed => healthyConnections' = healthyConnections]_vars

\* C4: in every state where a network's healthy list is not empty, every
\* connection getConnection(network) can return is an element of that list.
C4_SelectsFromHealthy ==
    \A network \in Networks :
        MapGet(healthyConnections, network) # <<>> =>
            Selectable(network) \subseteq Range(MapGet(healthyConnections, network))

\* getConnection returned a healthy connection while another pooled connection
\* was not healthy
C4_Witness ==
    /\ healthyConnections[defaultNetwork] # <<>>
    /\ Len(healthyConnections[defaultNetwork]) < Len(allConnections[defaultNetwork])
    /\ selected \in Range(healthyConnections[defaultNetwork])
    /\ Selectable(defaultNetwork) = {selected}

C6_AttemptsBounded ==
    /\ retryFrame.invoked <= retryFrame.maxRetries
    /\ retryFrame.pc = "thrown" =>
           /\ retryFrame.invoked = retryFrame.maxRetries
           /\ retryFrame.maxRetries > 0 =>
                  /\ retryFrame.error.attempt = retryFrame.maxRetries
                  /\ retryFrame.error.cause \in {"operation", "timeout"}
           /\ retryFrame.maxRetries = 0 => retryFrame.error = GenericError

\* a call with maxRetries >= 2 has thrown after a failed and a timed-out attempt
C6_Witness ==
    /\ retryFrame.pc = "thrown"
    /\ retryFrame.maxRetries >= 2
    /\ retryFrame.invoked = retryFrame.maxRetries
    /\ retryFrame.error = AttemptError(retryFrame.maxRetries, "operation")

\* C7: a result is only ever held by a call that has returned, and a call that
\* returned the result of attempt k made k - 1 failed attempts and k calls of
\* rpcMethod, none after the success.
C7_FirstSuccessReturns ==
    /\ retryFrame.result # 0 => retryFrame.pc = "returned"
    /\ retryFrame.pc = "returned" =>
           /\ retryFrame.result = retryFrame.attempt + 1
           /\ retryFrame.invoked = retryFrame.result
           /\ retryFrame.result <= retryFrame.maxRetries
           /\ retryFrame.lastError.attempt = retryFrame.attempt

\* attempt 1 failed, attempt 2 succeeded, and the third attempt the options
\* allowed was not made
C7_Witness ==
    /\ retryFrame.pc = "returned"
    /\ retryFrame.maxRetries = 3
    /\ retryFrame.result = 2
    /\ retryFrame.invoked = 2
    /\ retryFrame.lastError = AttemptError(1, "operation")

\* C8: a timeout that wins the race is recorded as the last error of exactly one
\* attempt; if attempts remain, a connection is selected and rpcMethod is called
\* again, otherwise the call throws the timeout.
C8_TimeoutConsumesOneAttempt ==
    [][\A connection \in Selectable(retryFrame.network) :
          (retryFrame.pc = "race" /\ AttemptTimeout(connection)) =>
              /\ retryFrame'.attempt = retryFrame.attempt + 1
              /\ retryFrame'.lastError = AttemptError(retryFrame.attempt + 1, "timeout")
              /\ IF retryFrame.attempt + 1 < retryFrame.maxRetries
                 THEN /\ retryFrame'.pc = "race"
                      /\ retryFrame'.connection = connection
                      /\ retryFrame'.invoked = retryFrame.invoked + 1
                 ELSE /\ retryFrame'.pc = "thrown"
                      /\ retryFrame'.error = retryFrame'.lastError
                      /\ retryFrame'.invoked = retryFrame.invoked
      ]_vars

\* the first attempt timed out and the second attempt is running
C8_Witness ==
    /\ retryFrame.pc = "race"
    /\ retryFrame.lastError = AttemptError(1, "timeout")
    /\ retryFrame.attempt = 1
    /\ retryFrame.invoked = 2

\* C12: a call of executeWithRetry without forceHealthCheck selects from the
\* healthy list as it stands and calls rpcMethod within the step of the call,
\* whatever cycles are in flight, and leaves them alone; while a call is in
\* flight every cycle in flight can take its next step on a response and the
\* timer can start another cycle.
C12_CallsAndCyclesDoNotWait ==
    /\ [](retryFrame.pc = "race" =>
             /\ \A cy \in InFlight :
                    ENABLED (\E response \in SlotResponses :
                                \/ OfficialRespond(cy, response)
                                \/ ProbeRespond(cy, response))
             /\ (healthCheckInterval /\ CanStartCycle) => ENABLED TimerTick)
    /\ [][\A network \in Networks, maxRetries \in 1..MaxRetries :
            \A connection \in Selectable(network) :
               ExecuteWithRetry(network, maxRetries, FALSE, connection) =>
                   /\ retryFrame'.pc = "race"
                   /\ retryFrame'.connection = connection
                   /\ retryFrame'.invoked = 1
                   /\ cycles' = cycles
        ]_vars

\* a call made while the initial health check was in flight is running its
\* first attempt on a pooled connection, and that cycle has gone on to probe its
\* second connection
C12_Witness ==
    /\ retryFrame.pc = "race"
    /\ retryFrame.connection.pooled
    /\ initFrame.pc = "awaitHealth"
    /\ \E cy \in InFlight : cy.waiter = "initialize" /\ Len(cy.probed) = 1

\* everything of the manager but the ghost `disposed`
ManagerState == <<allConnections, healthyConnections, healthCheckInterval, cycles,
                  initFrame, initCount, selected, stats, retryFrame>>

\* C13: in every reachable state a call of stopHealthCheck or dispose returns
\* with no interval timer set, and a call made while no timer is set (before any
\* timer was started, or after an earlier stop) changes nothing of the manager.
C13_StopIsIdempotent ==
    /\ ENABLED StopHealthCheck
    /\ ENABLED Dispose
    /\ ~ENABLED (StopHealthCheck /\ healthCheckInterval')
    /\ ~ENABLED (Dispose /\ healthCheckInterval')
    /\ ~healthCheckInterval =>
           /\ ~ENABLED (StopHealthCheck /\ vars' # vars)
           /\ ~ENABLED (Dispose /\ ManagerState' # ManagerState)

\* initialize() has returned, which set the timer, and dispose() was called
\* since: no timer is set
C13_Witness ==
    /\ initCount >= 1
    /\ initFrame.pc = "idle"
    /\ disposed
    /\ ~healthCheckInterval

\* C14: every cycle that ends, whatever its requests settled with, resumes the
\* caller that awaits it (initialize, executeWithRetry with forceHealthCheck)
\* normally; a call of executeWithRetry only ever throws the error of its last
\* attempt, the generic error of a call with no attempts, or the error for no
\* connection.
C14_HealthCheckNeverRaises ==
    /\ [](retryFrame.pc = "thrown" =>
             \/ /\ retryFrame.maxRetries > 0
                /\ retryFrame.error.attempt = retryFrame.maxRetries
                /\ retryFrame.error.cause \in {"operation", "timeout"}
             \/ retryFrame.maxRetries = 0 /\ retryFrame.error = GenericError
             \/ retryFrame.error = NoConnectionError)
    /\ [][\A cy \in Completing :
             /\ cy.waiter = "initialize" =>
                    initFrame'.pc = "resume" /\ initFrame'.check \in {"skipped", "updated"}
             /\ cy.waiter = "executeWithRetry" =>
                    /\ retryFrame'.pc = "resume"
                    /\ retryFrame'.check \in {"skipped", "updated"}
                    /\ retryFrame'.error = NoError
        ]_vars

\* the forced health check of a call failed on the official endpoint and the
\* call goes on to its first attempt
C14_Witness ==
    /\ retryFrame.pc = "resume"
    /\ retryFrame.check = "skipped"
    /\ retryFrame.maxRetries > 0
    /\ retryFrame.error = NoError

\* the connections getConnection(network) draws from in the current state
SelectionPool(network) ==
    IF MapGet(healthyConnections, network) # <<>>
    THEN Range(MapGet(healthyConnections, network))
    ELSE Range(MapGet(allConnections, network))

\* C15: when an attempt fails or times out and another attempt follows, the
\* connection of the next attempt is not the one that just failed, whenever the
\* list getConnection draws from holds another connection.
C15_RetryUsesAlternative ==
    [][(/\ retryFrame.pc = "race"
        /\ retryFrame'.pc = "race"
        /\ retryFrame'.attempt = retryFrame.attempt + 1
        /\ Cardinality(SelectionPool(retryFrame.network)) > 1) =>
           retryFrame'.connection # retryFrame.connection
      ]_vars

\* C16: whenever the request to the official endpoint succeeds, with whatever
\* height (0 included), the cycle is not skipped: it goes on to probe the
\* connections of the network (or, when there are none, sets the empty list at
\* once), and a caller that awaits it is not told the check was skipped.
C16_AbortOnlyOnReferenceFailure ==
    [][\A cy \in Stepped, response \in Heights :
          (cy.pc = "official" /\ OfficialRespond(cy, response)) =>
              /\ IF allConnections[defaultNetwork] # <<>>
                 THEN cycles' = Advanced(cy, [cy EXCEPT
                                   !.pc = "probe",
                                   !.officialBlock = response,
                                   !.connections = allConnections[defaultNetwork]])
                 ELSE healthyConnections'[defaultNetwork] = <<>>
              /\ cy.waiter = "initialize" => initFrame'.check # "skipped"
              /\ cy.waiter = "executeWithRetry" => retryFrame'.check # "skipped"
      ]_vars

\* the cycles in flight that executeWithRetry awaits
ForcedCycles == {cy \in InFlight : cy.waiter = "executeWithRetry"}

\* C18: a call with forceHealthCheck starts a cycle of its own and selects no
\* connection and calls rpcMethod not once until that cycle has ended, having
\* replaced the healthy list or skipped the check; only then does the loop run.
C18_ForcedCheckPrecedesAttempts ==
    /\ [](/\ retryFrame.pc = "force" =>
               /\ Cardinality(ForcedCycles) = 1
               /\ \A cy \in ForcedCycles : CopiesIn(cy, cycles) = 1
          /\ retryFrame.pc \in {"force", "resume"} =>
               /\ retryFrame.invoked = 0
               /\ retryFrame.connection = NoConnection
          /\ retryFrame.pc = "resume" =>
               /\ retryFrame.check \in {"skipped", "updated"}
               /\ ForcedCycles = {})
    /\ [][/\ \A network \in Networks, maxRetries \in 0..MaxRetries :
              ExecuteWithRetry(network, maxRetries, TRUE, NoConnection) =>
                  /\ retryFrame'.pc = "force"
                  /\ cycles' = Started("executeWithRetry")
          /\ (retryFrame.pc = "force" /\ retryFrame' # retryFrame) =>
                  /\ retryFrame'.pc = "resume"
                  /\ \E cy \in Completing : cy.waiter = "executeWithRetry"
          /\ retryFrame'.invoked > retryFrame.invoked => retryFrame.pc # "force"
        ]_vars

\* the cycle of a call with forceHealthCheck has replaced the healthy list and
\* the call is about to select its first connection
C18_Witness ==
    /\ retryFrame.pc = "resume"
    /\ retryFrame.check = "updated"
    /\ retryFrame.maxRetries > 0
    /\ retryFrame.invoked = 0
    /\ healthyConnections[defaultNetwork] # <<>>

C20_LaterCycleWins ==
    [][\A cy \in Completing :
          (cy.pc = "probe" /\ healthyConnections' # healthyConnections) =>
              cy.order # "stale"
      ]_vars

\* C22: getConnection, getStats and executeWithRetry without forceHealthCheck
\* never modify the connections or the healthy connections of a network: a step
\* that changes one of the two maps is a step of initialize() or of a refresh
\* cycle, and leaves alone what the three calls return and the call's frame. A
\* failed or timed-out attempt leaves the connection it used in the healthy list.
C22_ReadersLeavePools ==
    [][/\ (allConnections' # allConnections \/ healthyConnections' # healthyConnections)
            => /\ selected' = selected
               /\ stats' = stats
               /\ retryFrame' = retryFrame
               /\ (initFrame' # initFrame \/ Stepped # {})
       /\ (/\ retryFrame.pc = "race"
           /\ retryFrame'.attempt = retryFrame.attempt + 1)
            => \A n \in DOMAIN healthyConnections :
                  /\ n \in DOMAIN healthyConnections'
                  /\ \A c \in Range(healthyConnections[n]) :
                         c \in Range(healthyConnections'[n])]_vars

\* the only healthy connection was used by an attempt that timed out, is used by
\* the next attempt and is the one getConnection and getStats report
C22_Witness ==
    /\ retryFrame.pc = "race"
    /\ retryFrame.lastError = AttemptError(1, "timeout")
    /\ defaultNetwork \in DOMAIN healthyConnections
    /\ healthyConnections[defaultNetwork] = <<retryFrame.connection>>
    /\ selected = retryFrame.connection
    /\ stats # NoStats
    /\ stats.healthyEndpoints[defaultNetwork] = <<retryFrame.connection.rpcEndpoint>>

\* C21: once dispose() has returned, and as long as initialize() (or another
\* refresh) has not been called after it, no interval timer is set.
C21_NoTimerAfterDispose ==
    disposed => ~healthCheckInterval

\* a call of executeWithRetry that has not returned or thrown yet
Pending == retryFrame.pc \in {"force", "resume", "race"}

\* the call of executeWithRetry has returned a result or thrown
Settled == retryFrame.pc \in {"returned", "thrown"}

\* C23: every call of executeWithRetry eventually returns or throws, provided
\* the timeouts fire, even if the operation never settles and even if the call
\* forces a health check in which the slow endpoint never answers.
C23_CallEventuallySettles ==
    Pending ~> Settled

\* the same for the calls that are past the forced health check, or had none
C23_AttemptsEventuallySettle ==
    (retryFrame.pc \in {"resume", "race"}) ~> Settled

\* C24: when a call of executeWithRetry has returned or thrown, no timeout set
\* by one of its attempts is still pending.
C24_NoTimerPendingWhenSettled ==
    Settled => retryFrame.timers = {}

\* C10: a cycle whose request to the official endpoint succeeded completes (and
\* replaces the healthy list) once the requests to the responsive endpoints have
\* settled, even if the slow endpoint never answers.
C10_SlowEndpointDoesNotBlock ==
    (\E cy \in InFlight : cy.pc = "probe") ~> (cycles = EmptyBag)

====
